---- MODULE Spec2Model ----
(***************************************************************************)
(* Persistence layer of the Mergington High School activities service      *)
(* (src/src/db.py) and its callers in the HTTP layer (src/src/app.py).     *)
(*                                                                         *)
(* The store is one SQLite file with the tables activities, enrollments    *)
(* and schema_migrations.  Process start runs initialize_database          *)
(* (migrations, then seeding); afterwards request handlers call            *)
(* get_activities, signup_for_activity and unregister_from_activity, each  *)
(* on a connection of its own.                                             *)
(*                                                                         *)
(* Text values (emails) are sequences of character codes, so that the      *)
(* ORDER BY of get_activities and the truth test `if row["email"]` are     *)
(* computed as SQLite and Python compute them.                             *)
(***************************************************************************)
EXTENDS Integers, Sequences, FiniteSets, Bags, TLC

\* Number of entries of DEFAULT_ACTIVITIES the seeder is modelled with.
CatalogSize == 1

\* Number of *.sql files in the migrations directory, versions 1..NumMigrations.
NumMigrations == 2

\* "@mergington.edu" as character codes
Domain ==
    <<64, 109, 101, 114, 103, 105, 110, 103, 116, 111, 110, 46, 101, 100, 117>>

DEFAULT_ACTIVITIES ==
    <<
      [name |-> "Chess Club",
       description |-> "Learn strategies and compete in chess tournaments",
       schedule |-> "Fridays, 3:30 PM - 5:00 PM",
       max_participants |-> 12,
       participants |-> <<
           <<109, 105, 99, 104, 97, 101, 108>> \o Domain,  \* michael@mergington.edu
           <<100, 97, 110, 105, 101, 108>> \o Domain >>  \* daniel@mergington.edu
      ],
      [name |-> "Programming Class",
       description |-> "Learn programming fundamentals and build software projects",
       schedule |-> "Tuesdays and Thursdays, 3:30 PM - 4:30 PM",
       max_participants |-> 20,
       participants |-> <<
           <<101, 109, 109, 97>> \o Domain,  \* emma@mergington.edu
           <<115, 111, 112, 104, 105, 97>> \o Domain >>  \* sophia@mergington.edu
      ],
      [name |-> "Gym Class",
       description |-> "Physical education and sports activities",
       schedule |-> "Mondays, Wednesdays, Fridays, 2:00 PM - 3:00 PM",
       max_participants |-> 30,
       participants |-> <<
           <<106, 111, 104, 110>> \o Domain,  \* john@mergington.edu
           <<111, 108, 105, 118, 105, 97>> \o Domain >>  \* olivia@mergington.edu
      ],
      [name |-> "Soccer Team",
       description |-> "Join the school soccer team and compete in matches",
       schedule |-> "Tuesdays and Thursdays, 4:00 PM - 5:30 PM",
       max_participants |-> 22,
       participants |-> <<
           <<108, 105, 97, 109>> \o Domain,  \* liam@mergington.edu
           <<110, 111, 97, 104>> \o Domain >>  \* noah@mergington.edu
      ],
      [name |-> "Basketball Team",
       description |-> "Practice and play basketball with the school team",
       schedule |-> "Wednesdays and Fridays, 3:30 PM - 5:00 PM",
       max_participants |-> 15,
       participants |-> <<
           <<97, 118, 97>> \o Domain,  \* ava@mergington.edu
           <<109, 105, 97>> \o Domain >>  \* mia@mergington.edu
      ],
      [name |-> "Art Club",
       description |-> "Explore your creativity through painting and drawing",
       schedule |-> "Thursdays, 3:30 PM - 5:00 PM",
       max_participants |-> 15,
       participants |-> <<
           <<97, 109, 101, 108, 105, 97>> \o Domain,  \* amelia@mergington.edu
           <<104, 97, 114, 112, 101, 114>> \o Domain >>  \* harper@mergington.edu
      ],
      [name |-> "Drama Club",
       description |-> "Act, direct, and produce plays and performances",
       schedule |-> "Mondays and Wednesdays, 4:00 PM - 5:30 PM",
       max_participants |-> 20,
       participants |-> <<
           <<101, 108, 108, 97>> \o Domain,  \* ella@mergington.edu
           <<115, 99, 97, 114, 108, 101, 116, 116>> \o Domain >>  \* scarlett@mergington.edu
      ],
      [name |-> "Math Club",
       description |-> "Solve challenging problems and participate in math competitions",
       schedule |-> "Tuesdays, 3:30 PM - 4:30 PM",
       max_participants |-> 10,
       participants |-> <<
           <<106, 97, 109, 101, 115>> \o Domain,  \* james@mergington.edu
           <<98, 101, 110, 106, 97, 109, 105, 110>> \o Domain >>  \* benjamin@mergington.edu
      ],
      [name |-> "Debate Team",
       description |-> "Develop public speaking and argumentation skills",
       schedule |-> "Fridays, 4:00 PM - 5:30 PM",
       max_participants |-> 12,
       participants |-> <<
           <<99, 104, 97, 114, 108, 111, 116, 116, 101>> \o Domain,  \* charlotte@mergington.edu
           <<104, 101, 110, 114, 121>> \o Domain >>  \* henry@mergington.edu
      ]
    >>

\* The catalog the seeder inserts: the first CatalogSize entries, in dict order.
Catalog ==
    SubSeq(DEFAULT_ACTIVITIES, 1, CatalogSize)

\* An activity row that is not in the default catalog (operator-added data).
ForeignActivity ==
    [id |-> 1, name |-> "Robotics Club",
     description |-> "Build and program robots",
     schedule |-> "Mondays, 3:30 PM - 5:00 PM",
     max_participants |-> 8]

\* The sorted list of migration files, sorted(MIGRATIONS_DIR.glob("*.sql")).
MigrationFiles ==
    1..NumMigrations

\* Request inputs: activity names (path parameter) and emails (query parameter).
NameInputs ==
    {Catalog[i].name : i \in 1..Len(Catalog)} \cup {ForeignActivity.name}

EmailInputs ==
    {<< >>} \cup {DEFAULT_ACTIVITIES[1].participants[i] : i \in 1..2}

\* The emails concurrent callers contend for.
SharedEmailInputs ==
    {<< >>, DEFAULT_ACTIVITIES[1].participants[1]}

Callers ==
    {"c1", "c2"}

\* Calls made one after another come from one caller.
SerialCallers ==
    {"c1"}

\* The SQL NULL an unmatched LEFT JOIN row carries in enrollments.email.  No
\* text value contains the code 0.
NULL ==
    << 0 >>

-----------------------------------------------------------------------------
(* Pure functions *)

\* SQLite's BINARY collation on text: memcmp of the common prefix, then length.
RECURSIVE LexLessFrom(_, _, _)
LexLessFrom(a, b, i) ==
    IF i > Len(a) THEN i <= Len(b)
    ELSE IF i > Len(b) THEN FALSE
    ELSE IF a[i] # b[i] THEN a[i] < b[i]
    ELSE LexLessFrom(a, b, i + 1)

LexLess(a, b) ==
    LexLessFrom(a, b, 1)

\* Variant of LeftJoin: an inner join, which drops activities without rows.
InnerJoin(acts, enr) ==
    LET pairs == {p \in acts \X BagToSet(enr) : p[2][1] = p[1].id}
        matched == {[activity |-> p[1], email |-> p[2][2]] : p \in pairs}
    IN  [r \in matched |-> CopiesIn(<<r.activity.id, r.email>>, enr)]

\* FROM activities LEFT JOIN enrollments ON enrollments.activity_id =
\* activities.id: one row per matching enrollment (Copies of them for equal
\* rows) and, for an activity without any, one row with a NULL email.
LeftJoin(acts, enr) ==
    LET pairs == {p \in acts \X BagToSet(enr) : p[2][1] = p[1].id}
        matched == {[activity |-> p[1], email |-> p[2][2]] : p \in pairs}
        lonely == {a \in acts : \A k \in BagToSet(enr) : k[1] # a.id}
        bare == {[activity |-> a, email |-> NULL] : a \in lonely}
    IN  [r \in matched \cup bare |->
            IF r.email = NULL THEN 1
            ELSE CopiesIn(<<r.activity.id, r.email>>, enr)]

\* ORDER BY ... enrollments.email: NULL before every text.
EmailLess(x, y) ==
    IF x = NULL THEN y # NULL
    ELSE y # NULL /\ LexLess(x, y)

\* The email column of a bag of joined rows, in ORDER BY order.
RECURSIVE OrderByEmail(_)
OrderByEmail(emails) ==
    IF BagToSet(emails) = {} THEN << >>
    ELSE LET m == CHOOSE x \in BagToSet(emails) :
                      \A y \in BagToSet(emails) : ~EmailLess(y, x)
         IN  <<m>> \o OrderByEmail(emails (-) SetToBag({m}))

\* The emails of the joined rows of the activity named n, as a bag.
EmailsOfRows(rows, n) ==
    LET rs == {r \in BagToSet(rows) : r.activity.name = n}
    IN  [e \in {r.email : r \in rs} |->
            CopiesIn(CHOOSE r \in rs : r.email = e, rows)]

\* Python's truth value of row["email"]: None and "" are false.
Truthy(v) ==
    v # NULL /\ Len(v) > 0

\* The loop of get_activities over the rows of one activity: the email of a
\* row is appended `if row["email"]`.
Participants(emails) ==
    SelectSeq(emails, Truthy)

\* The mapping the loop builds from the fetched rows: a key per activity name
\* that occurs in a row.  (ORDER BY activities.name fixes the order of the
\* keys, which a mapping does not have.)
BuildActivities(rows) ==
    [n \in {r.activity.name : r \in BagToSet(rows)} |->
        LET a == (CHOOSE r \in BagToSet(rows) : r.activity.name = n).activity
        IN  [description |-> a.description,
             schedule |-> a.schedule,
             max_participants |-> a.max_participants,
             participants |-> Participants(OrderByEmail(EmailsOfRows(rows, n)))]]

\* get_activities on a store with the tables (acts, enr).
GetActivities(acts, enr) ==
    BuildActivities(LeftJoin(acts, enr))

\* cursor.lastrowid of an INSERT into activities: the next integer key.
NextId(acts) ==
    IF acts = {} THEN 1
    ELSE 1 + (CHOOSE m \in {a.id : a \in acts} : \A a \in acts : a.id <= m)

RECURSIVE InsertParticipants(_, _, _, _)
InsertParticipants(enr, id, ps, i) ==
    IF i > Len(ps) THEN enr
    ELSE InsertParticipants(enr (+) SetToBag({<<id, ps[i]>>}), id, ps, i + 1)

\* The loop of _seed_default_data from catalog entry k on.
RECURSIVE SeedFrom(_, _, _)
SeedFrom(k, acts, enr) ==
    IF k > Len(Catalog) THEN [activities |-> acts, enrollments |-> enr]
    ELSE LET d == Catalog[k]
             id == NextId(acts)
             row == [id |-> id, name |-> d.name, description |-> d.description,
                     schedule |-> d.schedule,
                     max_participants |-> d.max_participants]
         IN  SeedFrom(k + 1, acts \cup {row},
                      InsertParticipants(enr, id, d.participants, 1))

\* Variant of SeedDefaultData: the emptiness test reads the enrollments table.
SeedIfNoEnrollments(acts, enr) ==
    IF BagCardinality(enr) > 0 THEN [activities |-> acts, enrollments |-> enr]
    ELSE SeedFrom(1, acts, enr)

\* _seed_default_data on a connection whose view of the tables is (acts, enr).
SeedDefaultData(acts, enr) ==
    IF Cardinality(acts) > 0 THEN [activities |-> acts, enrollments |-> enr]
    ELSE SeedFrom(1, acts, enr)

\* Variant of Applied: the recorded versions are not consulted.
AppliedNone(recs) ==
    {}

\* The set `applied` that _apply_migrations builds from the rows of
\* schema_migrations.
Applied(recs) ==
    {v : v \in recs}

-----------------------------------------------------------------------------
(* State *)

VARIABLES
    \* the store (the committed content of the database file)
    activities,     \* set of activity rows
    enrollments,    \* bag of <<activity_id, email>> rows
    migrations,     \* versions recorded in schema_migrations
    uniqueIndex,    \* whether the schema declares (activity_id, email) unique
    \* the process and its startup (initialize_database)
    phase,          \* "startup", "serving" or "failed"
    ipc,            \* position inside initialize_database
    applied,        \* _apply_migrations' local set `applied`
    cur,            \* index of the migration file the loop is at
    wActs,          \* the startup connection's view of activities
    wEnr,           \* ... of enrollments
    wRecs,          \* ... of schema_migrations
    ranNow,         \* scripts handed to executescript during this startup
    lastFailed,     \* script whose execution failed last and has not run since
    completed,      \* initialize_database has completed on this file before
    \* the request handlers
    pc,             \* position of each caller inside its operation
    op,             \* operation the caller runs
    name,           \* its activity_name argument
    email,          \* its email argument
    actId,          \* activity["id"] as looked up
    deleted,        \* deleted.rowcount
    pend,           \* the caller's uncommitted statement
    conn,           \* state of the connection the caller opened
    result,         \* how the operation ended
    listing,        \* value returned by get_activities
    lock,           \* holder of the database's write lock
    peers,          \* calls in flight when this call began, not yet returned
    startCount,     \* matching enrollment rows in the store when it began
    \* the log of calls that ran one after another
    before,         \* enrollments when the current call began
    last            \* the call that returned last

storeVars ==
    <<activities, enrollments, migrations, uniqueIndex>>

startupVars ==
    <<phase, ipc, applied, cur, wActs, wEnr, wRecs, ranNow, lastFailed, completed>>

callerVars ==
    <<pc, op, name, email, actId, deleted, pend, conn, result, listing, lock,
      peers, startCount>>

logVars ==
    <<before, last>>

vars ==
    <<storeVars, startupVars, callerVars, logVars>>

NoCall ==
    [op |-> "none", name |-> "", email |-> << >>, result |-> "none",
     before |-> EmptyBag]

\* The database file before the first start: absent (sqlite3.connect creates
\* it empty), or prepared by an operator with the schema and one activity.
InitialStores ==
    { [activities |-> {}, migrations |-> {}],
      [activities |-> {ForeignActivity}, migrations |-> MigrationFiles] }

IdleCallers ==
    /\ pc = [c \in Callers |-> "idle"]
    /\ op = [c \in Callers |-> "none"]
    /\ name = [c \in Callers |-> ""]
    /\ email = [c \in Callers |-> << >>]
    /\ actId = [c \in Callers |-> 0]
    /\ deleted = [c \in Callers |-> 0]
    /\ pend = [c \in Callers |-> "none"]
    /\ conn = [c \in Callers |-> "none"]
    /\ result = [c \in Callers |-> "none"]
    /\ listing = [c \in Callers |-> << >>]
    /\ lock = "none"
    /\ peers = [c \in Callers |-> {}]
    /\ startCount = [c \in Callers |-> 0]

Init ==
    /\ \E s \in InitialStores :
          /\ activities = s.activities
          /\ migrations = s.migrations
    /\ enrollments = EmptyBag
    /\ uniqueIndex \in BOOLEAN
    /\ phase = "startup"
    /\ ipc = "open"
    /\ applied = {}
    /\ cur = 0
    /\ wActs = {}
    /\ wEnr = EmptyBag
    /\ wRecs = {}
    /\ ranNow = {}
    /\ lastFailed = 0
    /\ completed = FALSE
    /\ IdleCallers
    /\ before = EmptyBag
    /\ last = NoCall

-----------------------------------------------------------------------------
(* Process start: on_startup -> initialize_database *)

\* After the last migration file the loop ends and seeding is next.
AfterFile(i) ==
    IF i >= NumMigrations THEN "seed" ELSE "migrate"

\* initialize_database opens its connection; _apply_migrations reads the
\* recorded versions into `applied`.
OpenInit ==
    /\ phase = "startup"
    /\ ipc = "open"
    /\ applied' = Applied(migrations)
    /\ wActs' = activities
    /\ wEnr' = enrollments
    /\ wRecs' = migrations
    /\ cur' = 1
    /\ ipc' = AfterFile(0)
    /\ UNCHANGED <<storeVars, phase, ranNow, lastFailed, completed, callerVars, logVars>>

\* `if version in applied: continue`
MigrateSkip ==
    /\ phase = "startup"
    /\ ipc = "migrate"
    /\ cur \in applied
    /\ cur' = cur + 1
    /\ ipc' = AfterFile(cur)
    /\ UNCHANGED <<storeVars, phase, applied, wActs, wEnr, wRecs, ranNow,
                   lastFailed, completed, callerVars, logVars>>

\* Variant of MigrateRun: the version is inserted before the script is run, so
\* that executescript commits it.
MigrateRunRecordFirst(ok) ==
    /\ phase = "startup"
    /\ ipc = "migrate"
    /\ cur \notin applied
    /\ ranNow' = ranNow \cup {cur}
    /\ activities' = wActs
    /\ enrollments' = wEnr
    /\ migrations' = wRecs \cup {cur}
    /\ IF ok
       THEN /\ wRecs' = wRecs \cup {cur}
            /\ cur' = cur + 1
            /\ ipc' = AfterFile(cur)
            /\ lastFailed' = IF lastFailed = cur THEN 0 ELSE lastFailed
            /\ UNCHANGED <<phase, wActs, wEnr>>
       ELSE /\ phase' = "failed"
            /\ ipc' = "none"
            /\ lastFailed' = cur
            /\ wActs' = {}
            /\ wEnr' = EmptyBag
            /\ wRecs' = {}
            /\ UNCHANGED cur
    /\ UNCHANGED <<uniqueIndex, applied, completed, callerVars, logVars>>

\* executescript commits the open transaction, then runs the script.  When the
\* script succeeds its version is inserted (uncommitted); when it fails the
\* exception leaves initialize_database and the with block rolls back.
MigrateRun(ok) ==
    /\ phase = "startup"
    /\ ipc = "migrate"
    /\ cur \notin applied
    /\ ranNow' = ranNow \cup {cur}
    /\ activities' = wActs
    /\ enrollments' = wEnr
    /\ migrations' = wRecs
    /\ IF ok
       THEN /\ wRecs' = wRecs \cup {cur}
            /\ cur' = cur + 1
            /\ ipc' = AfterFile(cur)
            /\ lastFailed' = IF lastFailed = cur THEN 0 ELSE lastFailed
            /\ UNCHANGED <<phase, wActs, wEnr>>
       ELSE /\ phase' = "failed"
            /\ ipc' = "none"
            /\ lastFailed' = cur
            /\ wActs' = {}
            /\ wEnr' = EmptyBag
            /\ wRecs' = {}
            /\ UNCHANGED cur
    /\ UNCHANGED <<uniqueIndex, applied, completed, callerVars, logVars>>

\* _seed_default_data on the startup connection.
Seed ==
    /\ phase = "startup"
    /\ ipc = "seed"
    /\ wActs' = SeedDefaultData(wActs, wEnr).activities
    /\ wEnr' = SeedDefaultData(wActs, wEnr).enrollments
    /\ ipc' = "commit"
    /\ UNCHANGED <<storeVars, phase, applied, cur, wRecs, ranNow, lastFailed,
                   completed, callerVars, logVars>>

\* connection.commit(): the startup is complete and the API starts serving.
CommitInit ==
    /\ phase = "startup"
    /\ ipc = "commit"
    /\ activities' = wActs
    /\ enrollments' = wEnr
    /\ migrations' = wRecs
    /\ phase' = "serving"
    /\ ipc' = "none"
    /\ completed' = TRUE
    /\ applied' = {}
    /\ cur' = 0
    /\ wActs' = {}
    /\ wEnr' = EmptyBag
    /\ wRecs' = {}
    /\ ranNow' = {}
    /\ UNCHANGED <<uniqueIndex, lastFailed, callerVars, logVars>>

\* The process stops (requests in flight are lost, their uncommitted changes
\* with them) and is started again.  The log of calls starts afresh.
Restart ==
    /\ phase \in {"serving", "failed"}
    /\ phase' = "startup"
    /\ ipc' = "open"
    /\ applied' = {}
    /\ cur' = 0
    /\ ranNow' = {}
    /\ pc' = [c \in Callers |-> "idle"]
    /\ op' = [c \in Callers |-> "none"]
    /\ name' = [c \in Callers |-> ""]
    /\ email' = [c \in Callers |-> << >>]
    /\ actId' = [c \in Callers |-> 0]
    /\ deleted' = [c \in Callers |-> 0]
    /\ pend' = [c \in Callers |-> "none"]
    /\ conn' = [c \in Callers |-> "none"]
    /\ result' = [c \in Callers |-> "none"]
    /\ listing' = [c \in Callers |-> << >>]
    /\ lock' = "none"
    /\ peers' = [c \in Callers |-> {}]
    /\ startCount' = [c \in Callers |-> 0]
    /\ before' = EmptyBag
    /\ last' = NoCall
    /\ UNCHANGED <<storeVars, wActs, wEnr, wRecs, lastFailed, completed>>

-----------------------------------------------------------------------------
(* Request handlers: get_activities, signup_for_activity,
   unregister_from_activity *)

InFlight(c) ==
    pc[c] \notin {"idle", "done"}

\* The enrollment row the caller's arguments name.
Key(c) ==
    <<actId[c], email[c]>>

\* sqlite3.Connection.__exit__ commits or rolls back and returns; it does not
\* call close().  The state of the connection after the with block.
ConnAfterWith ==
    "open"

\* Rows of the store matching the call's arguments when the call begins.
MatchingRows(n, e) ==
    LET found == {a \in activities : a.name = n}
    IN  IF found = {} THEN 0
        ELSE CopiesIn(<<(CHOOSE a \in found : TRUE).id, e>>, enrollments)

\* The handler is entered and _get_connection opens a connection.
Enter(c, o, n, e) ==
    /\ phase = "serving"
    /\ pc[c] = "idle"
    /\ op' = [op EXCEPT ![c] = o]
    /\ name' = [name EXCEPT ![c] = n]
    /\ email' = [email EXCEPT ![c] = e]
    /\ conn' = [conn EXCEPT ![c] = "open"]
    /\ pc' = [pc EXCEPT ![c] = IF o = "list" THEN "select" ELSE "lookup"]
    /\ peers' = [peers EXCEPT ![c] = {d \in Callers \ {c} : InFlight(d)}]
    /\ startCount' = [startCount EXCEPT ![c] = MatchingRows(n, e)]
    /\ UNCHANGED <<storeVars, startupVars, actId, deleted, pend, result,
                   listing, lock>>

\* GET /activities, POST .../signup?email=, DELETE .../unregister?email=
Begin(c, emails) ==
    \/ Enter(c, "list", "", << >>)
    \/ \E n \in NameInputs, e \in emails : Enter(c, "signup", n, e)
    \/ \E n \in NameInputs, e \in emails : Enter(c, "unregister", n, e)

\* An exception leaves the with block: the transaction is rolled back.
Raise(c, err) ==
    /\ pc' = [pc EXCEPT ![c] = "done"]
    /\ result' = [result EXCEPT ![c] = err]
    /\ pend' = [pend EXCEPT ![c] = "none"]
    /\ lock' = IF lock = c THEN "none" ELSE lock
    /\ conn' = [conn EXCEPT ![c] = ConnAfterWith]

\* SELECT id FROM activities WHERE name = ?
Lookup(c) ==
    /\ pc[c] = "lookup"
    /\ LET found == {a \in activities : a.name = name[c]}
       IN  IF found = {}
           THEN /\ Raise(c, "ActivityNotFoundError")
                /\ UNCHANGED actId
           ELSE /\ actId' = [actId EXCEPT ![c] = (CHOOSE a \in found : TRUE).id]
                /\ pc' = [pc EXCEPT ![c] =
                             IF op[c] = "signup" THEN "check" ELSE "delete"]
                /\ UNCHANGED <<result, pend, lock, conn>>
    /\ UNCHANGED <<storeVars, startupVars, op, name, email, deleted, listing,
                   peers, startCount,
                   logVars>>

\* Variant of Existing: the existence check finds nothing.
ExistingSkipped(c) ==
    FALSE

\* SELECT 1 FROM enrollments WHERE activity_id = ? AND email = ?
Existing(c) ==
    CopiesIn(Key(c), enrollments) > 0

Check(c) ==
    /\ pc[c] = "check"
    /\ IF Existing(c)
       THEN Raise(c, "AlreadySignedUpError")
       ELSE /\ pc' = [pc EXCEPT ![c] = "insert"]
            /\ UNCHANGED <<result, pend, lock, conn>>
    /\ UNCHANGED <<storeVars, startupVars, op, name, email, actId, deleted,
                   listing, peers, startCount,
                   logVars>>

\* The schema's uniqueness constraint on (activity_id, email), where the
\* migration scripts declare one: the INSERT of a second such row fails.
UniqueViolation(c) ==
    uniqueIndex /\ CopiesIn(Key(c), enrollments) > 0

\* INSERT INTO enrollments(activity_id, email): the statement opens a write
\* transaction (it waits while another connection holds the write lock).
Insert(c) ==
    /\ pc[c] = "insert"
    /\ lock = "none"
    /\ IF UniqueViolation(c)
       THEN Raise(c, "IntegrityError")
       ELSE /\ lock' = c
            /\ pend' = [pend EXCEPT ![c] = "insert"]
            /\ pc' = [pc EXCEPT ![c] = "commit"]
            /\ UNCHANGED <<result, conn>>
    /\ UNCHANGED <<storeVars, startupVars, op, name, email, actId, deleted,
                   listing, peers, startCount,
                   logVars>>

\* connection.commit() of signup_for_activity; the with block ends.
Commit(c) ==
    /\ pc[c] = "commit"
    /\ enrollments' = enrollments (+) SetToBag({Key(c)})
    /\ lock' = "none"
    /\ pend' = [pend EXCEPT ![c] = "none"]
    /\ pc' = [pc EXCEPT ![c] = "done"]
    /\ result' = [result EXCEPT ![c] = "ok"]
    /\ conn' = [conn EXCEPT ![c] = ConnAfterWith]
    /\ UNCHANGED <<activities, migrations, uniqueIndex, startupVars, op, name,
                   email, actId, deleted, listing, peers, startCount,
                   logVars>>

\* Variant of Delete: the statement does not wait for the write lock.
DeleteUnlocked(c) ==
    /\ pc[c] = "delete"
    /\ lock' = c
    /\ deleted' = [deleted EXCEPT ![c] = CopiesIn(Key(c), enrollments)]
    /\ pend' = [pend EXCEPT ![c] = "delete"]
    /\ pc' = [pc EXCEPT ![c] = "rowcount"]
    /\ UNCHANGED <<storeVars, startupVars, op, name, email, actId, conn, result,
                   listing, peers, startCount,
                   logVars>>

\* DELETE FROM enrollments WHERE activity_id = ? AND email = ?: opens a write
\* transaction like the INSERT; rowcount is the number of rows it matched.
Delete(c) ==
    /\ pc[c] = "delete"
    /\ lock = "none"
    /\ lock' = c
    /\ deleted' = [deleted EXCEPT ![c] = CopiesIn(Key(c), enrollments)]
    /\ pend' = [pend EXCEPT ![c] = "delete"]
    /\ pc' = [pc EXCEPT ![c] = "rowcount"]
    /\ UNCHANGED <<storeVars, startupVars, op, name, email, actId, conn, result,
                   listing, peers, startCount,
                   logVars>>

\* Variant of WithoutKey: the WHERE clause lacks the email condition.
WithoutActivity(enr, k) ==
    [x \in {y \in BagToSet(enr) : y[1] # k[1]} |-> enr[x]]

\* The table without the rows the DELETE matched.
WithoutKey(enr, k) ==
    [x \in BagToSet(enr) \ {k} |-> enr[x]]

\* Variant of RowCount: the rowcount is not tested before the commit.
RowCountUnchecked(c) ==
    /\ pc[c] = "rowcount"
    /\ enrollments' = WithoutKey(enrollments, Key(c))
    /\ lock' = "none"
    /\ pend' = [pend EXCEPT ![c] = "none"]
    /\ pc' = [pc EXCEPT ![c] = "done"]
    /\ result' = [result EXCEPT ![c] = "ok"]
    /\ conn' = [conn EXCEPT ![c] = ConnAfterWith]
    /\ UNCHANGED <<activities, migrations, uniqueIndex, startupVars, op, name,
                   email, actId, deleted, listing, peers, startCount,
                   logVars>>

\* `if deleted.rowcount == 0: raise NotSignedUpError`, else connection.commit()
RowCount(c) ==
    /\ pc[c] = "rowcount"
    /\ IF deleted[c] = 0
       THEN /\ Raise(c, "NotSignedUpError")
            /\ UNCHANGED enrollments
       ELSE /\ enrollments' = WithoutKey(enrollments, Key(c))
            /\ lock' = "none"
            /\ pend' = [pend EXCEPT ![c] = "none"]
            /\ pc' = [pc EXCEPT ![c] = "done"]
            /\ result' = [result EXCEPT ![c] = "ok"]
            /\ conn' = [conn EXCEPT ![c] = ConnAfterWith]
    /\ UNCHANGED <<activities, migrations, uniqueIndex, startupVars, op, name,
                   email, actId, deleted, listing, peers, startCount,
                   logVars>>

\* The SELECT ... LEFT JOIN of get_activities and the loop over its rows.
Select(c) ==
    /\ pc[c] = "select"
    /\ listing' = [listing EXCEPT ![c] = GetActivities(activities, enrollments)]
    /\ pc' = [pc EXCEPT ![c] = "done"]
    /\ result' = [result EXCEPT ![c] = "ok"]
    /\ conn' = [conn EXCEPT ![c] = ConnAfterWith]
    /\ UNCHANGED <<storeVars, startupVars, op, name, email, actId, deleted,
                   pend, lock, peers, startCount,
                   logVars>>

\* The connection object is no longer referenced and the interpreter
\* finalizes it at some later time, which closes it.  (Once the response is
\* sent the connection is no longer followed.)
Finalize(c) ==
    /\ pc[c] = "done"
    /\ conn[c] = "open"
    /\ conn' = [conn EXCEPT ![c] = "closed"]
    /\ UNCHANGED <<storeVars, startupVars, pc, op, name, email, actId, deleted,
                   pend, result, listing, lock, peers, startCount,
                   logVars>>

\* The HTTP layer has sent the response; the caller may issue a new request.
Return(c) ==
    /\ pc[c] = "done"
    /\ pc' = [pc EXCEPT ![c] = "idle"]
    /\ op' = [op EXCEPT ![c] = "none"]
    /\ name' = [name EXCEPT ![c] = ""]
    /\ email' = [email EXCEPT ![c] = << >>]
    /\ actId' = [actId EXCEPT ![c] = 0]
    /\ deleted' = [deleted EXCEPT ![c] = 0]
    /\ result' = [result EXCEPT ![c] = "none"]
    /\ listing' = [listing EXCEPT ![c] = << >>]
    /\ peers' = [d \in Callers |-> IF d = c THEN {} ELSE peers[d] \ {c}]
    /\ startCount' = [startCount EXCEPT ![c] = 0]
    /\ conn' = [conn EXCEPT ![c] = "none"]
    /\ UNCHANGED <<storeVars, startupVars, pend, lock>>

-----------------------------------------------------------------------------
(* Specifications *)

\* Calls made one after another: a call begins when no other is in progress.
\* `before` and `last` log the store at the call's start and the call that
\* returned before it.
SerialBegin(c) ==
    /\ \A d \in Callers : pc[d] = "idle"
    /\ Begin(c, EmailInputs)
    /\ before' = enrollments
    /\ UNCHANGED last

SerialReturn(c) ==
    /\ Return(c)
    /\ last' = [op |-> op[c], name |-> name[c], email |-> email[c],
                result |-> result[c], before |-> before]
    /\ UNCHANGED before

Next ==
    \/ OpenInit
    \/ MigrateSkip
    \/ \E ok \in BOOLEAN : MigrateRun(ok)
    \/ Seed
    \/ CommitInit
    \/ Restart
    \/ \E c \in SerialCallers : SerialBegin(c)
    \/ \E c \in Callers : Lookup(c)
    \/ \E c \in Callers : Check(c)
    \/ \E c \in Callers : Insert(c)
    \/ \E c \in Callers : Commit(c)
    \/ \E c \in Callers : Delete(c)
    \/ \E c \in Callers : RowCount(c)
    \/ \E c \in Callers : Select(c)
    \/ \E c \in Callers : Finalize(c)
    \/ \E c \in Callers : SerialReturn(c)

Spec ==
    Init /\ [][Next]_vars

\* Concurrent callers: the statements of their calls interleave.
ConcBegin(c) ==
    Begin(c, SharedEmailInputs) /\ UNCHANGED logVars

ConcReturn(c) ==
    Return(c) /\ UNCHANGED logVars

ConcNext ==
    \/ OpenInit
    \/ MigrateSkip
    \/ \E ok \in BOOLEAN : MigrateRun(ok)
    \/ Seed
    \/ CommitInit
    \/ Restart
    \/ \E c \in Callers : ConcBegin(c)
    \/ \E c \in Callers : Lookup(c)
    \/ \E c \in Callers : Check(c)
    \/ \E c \in Callers : Insert(c)
    \/ \E c \in Callers : Commit(c)
    \/ \E c \in Callers : Delete(c)
    \/ \E c \in Callers : RowCount(c)
    \/ \E c \in Callers : Select(c)
    \/ \E c \in Callers : Finalize(c)
    \/ \E c \in Callers : ConcReturn(c)

ConcSpec ==
    Init /\ [][ConcNext]_vars

-----------------------------------------------------------------------------
(* Properties *)

HasParticipant(ps, e) ==
    \E i \in 1..Len(ps) : ps[i] = e

\* Every email a request or the catalog can bring into the store.
AllEmails ==
    EmailInputs \cup
    {Catalog[i].participants[j] : i \in 1..Len(Catalog), j \in 1..2}

\* A call of operation o that has ended for an activity that exists.
Ended(c, o) ==
    pc[c] = "done" /\ op[c] = o /\ actId[c] # 0

\* C1: under calls made one after another, no (activity, email) pair has more
\* than one enrollment row, and a signup for a pair that was enrolled when the
\* call began ends with AlreadySignedUpError and leaves the rows as they were.
NoDuplicateEnrollment ==
    /\ \A k \in BagToSet(enrollments) : CopiesIn(k, enrollments) = 1
    /\ \A c \in Callers :
          (Ended(c, "signup") /\ CopiesIn(Key(c), before) >= 1)
             => (result[c] = "AlreadySignedUpError" /\ enrollments = before)

\* A signup that succeeded, followed at once by the same signup, which failed.
NoDuplicateEnrollmentWitness ==
    \E c \in Callers :
       /\ Ended(c, "signup")
       /\ last.op = "signup" /\ last.result = "ok"
       /\ last.name = name[c] /\ last.email = email[c]
       /\ result[c] = "AlreadySignedUpError"

\* C2: an unregister for an existing activity and an email that was not
\* enrolled in it when the call began ends with NotSignedUpError and leaves
\* every enrollment as it was.
UnenrollNotEnrolledFails ==
    \A c \in Callers :
       (Ended(c, "unregister") /\ CopiesIn(Key(c), before) = 0)
          => (result[c] = "NotSignedUpError" /\ enrollments = before)

\* The email was unenrolled by the call before, and is unenrolled again.
UnenrollNotEnrolledFailsWitness ==
    \E c \in Callers :
       /\ Ended(c, "unregister")
       /\ last.op = "unregister" /\ last.result = "ok"
       /\ last.name = name[c] /\ last.email = email[c]
       /\ result[c] = "NotSignedUpError"
       /\ enrollments # EmptyBag

\* C3: a successful signup of (A, e) followed by the unregister of (A, e): the
\* unregister succeeds, the enrollments are those before the signup (exactly
\* the one row was removed), and the listing shows A without e.
EnrollUnenrollRoundTrip ==
    \A c \in Callers :
       ( /\ Ended(c, "unregister")
         /\ last.op = "signup" /\ last.result = "ok"
         /\ last.name = name[c] /\ last.email = email[c] )
          => /\ result[c] = "ok"
             /\ enrollments = last.before
             /\ before = last.before (+) SetToBag({Key(c)})
             /\ CopiesIn(Key(c), last.before) = 0
             /\ name[c] \in DOMAIN GetActivities(activities, enrollments)
             /\ ~HasParticipant(
                   GetActivities(activities, enrollments)[name[c]].participants,
                   email[c])

\* The round trip has run, beside other enrollments of the same activity.
EnrollUnenrollRoundTripWitness ==
    \E c \in Callers :
       /\ Ended(c, "unregister")
       /\ last.op = "signup" /\ last.result = "ok"
       /\ last.name = name[c] /\ last.email = email[c]
       /\ result[c] = "ok"
       /\ \E k \in BagToSet(enrollments) : k[1] = actId[c]

\* C4: while initialize_database runs on a store on which it has completed
\* before, no script is executed, and no migration record, activity or
\* enrollment is added, neither to the store nor to the open transaction.
InitializeIdempotent ==
    [][(completed /\ phase = "startup")
          => /\ activities' = activities
             /\ enrollments' = enrollments
             /\ migrations' = migrations
             /\ ranNow' = {}
             /\ phase' # "failed"
             /\ (phase' = "startup" =>
                    /\ wActs' = activities
                    /\ wEnr' = enrollments
                    /\ wRecs' = migrations)]_vars

\* A second run is about to commit, on a store that requests have changed.
InitializeIdempotentWitness ==
    /\ completed
    /\ phase = "startup"
    /\ ipc = "commit"
    /\ \E k \in BagToSet(enrollments) : k[2] = << >>

\* The rows _seed_default_data inserts into empty tables: the catalog's
\* activities, and one enrollment for each participant of each.
CatalogSeeded(acts, enr) ==
    /\ Cardinality(acts) = Len(Catalog)
    /\ \A i \in 1..Len(Catalog) :
          \E a \in acts :
             /\ a.name = Catalog[i].name
             /\ a.description = Catalog[i].description
             /\ a.schedule = Catalog[i].schedule
             /\ a.max_participants = Catalog[i].max_participants
             /\ \A j \in 1..Len(Catalog[i].participants) :
                   CopiesIn(<<a.id, Catalog[i].participants[j]>>, enr) = 1
    /\ \A k \in BagToSet(enr) :
          \E i \in 1..Len(Catalog), a \in acts :
             /\ a.name = Catalog[i].name
             /\ k[1] = a.id
             /\ HasParticipant(Catalog[i].participants, k[2])

\* C5: the seeding step inserts the catalog if the activities table is empty
\* when it runs, and otherwise inserts no activity and no enrollment.
SeedsIffEmpty ==
    [][(phase = "startup" /\ ipc = "seed" /\ ipc' = "commit")
          => IF wActs = {}
             THEN CatalogSeeded(wActs', wEnr')
             ELSE wActs' = wActs /\ wEnr' = wEnr]_vars

\* Seeding has run on a store that holds the catalog's activity and, after
\* every default enrollment was removed, no enrollment: nothing was inserted.
SeedsIffEmptyWitness ==
    /\ phase = "startup"
    /\ ipc = "commit"
    /\ completed
    /\ \E a \in wActs : a.name = Catalog[1].name
    /\ wEnr = EmptyBag

\* C6: the listing has an entry for every activity of the store, and the
\* entry of an activity without enrollments has an empty participant list.
ListShowsEveryActivity ==
    \A c \in Callers :
       (pc[c] = "done" /\ op[c] = "list")
          => /\ DOMAIN listing[c] = {a.name : a \in activities}
             /\ \A a \in activities :
                   (\A k \in BagToSet(enrollments) : k[1] # a.id)
                      => listing[c][a.name].participants = << >>

\* A listing of a seeded activity all of whose participants were unenrolled.
ListShowsEveryActivityWitness ==
    \E c \in Callers :
       /\ pc[c] = "done" /\ op[c] = "list"
       /\ enrollments = EmptyBag
       /\ \E a \in activities : a.name = Catalog[1].name

\* C7: once an operation has ended, by return or by exception, the
\* connection it opened is closed.
ConnectionReleasedOnExit ==
    \A c \in Callers : pc[c] = "done" => conn[c] = "closed"

\* C8: a script whose execution fails gets no migration record, committed or
\* pending; the script that failed last is unrecorded, and when the loop comes
\* to it again it is executed; a script recorded in the store is not executed.
FailedMigrationRetried ==
    [][ /\ (phase = "startup" /\ phase' = "failed")
            => (cur \notin migrations' /\ cur \notin wRecs')
        /\ (lastFailed' # 0 => lastFailed' \notin migrations')
        /\ ( /\ phase = "startup" /\ ipc = "migrate" /\ cur = lastFailed
             /\ (cur' # cur \/ phase' # phase) )
            => cur \in ranNow'
        /\ \A v \in MigrationFiles :
              (v \in migrations /\ v \in ranNow') => v \in ranNow ]_vars

\* A start that skipped the recorded scripts and ran again, with a second
\* failure, the last script, which had failed in an earlier start.
FailedMigrationRetriedWitness ==
    /\ phase = "failed"
    /\ lastFailed = NumMigrations
    /\ ranNow = {NumMigrations}
    /\ migrations = MigrationFiles \ {NumMigrations}

\* Two ended unregister calls for the same (A, e) that overlapped: d's call
\* was in flight when c's began, on a store with exactly one (A, e) row.
Overlapping(c, d) ==
    /\ c # d
    /\ Ended(c, "unregister") /\ Ended(d, "unregister")
    /\ name[c] = name[d] /\ email[c] = email[d]
    /\ d \in peers[c]
    /\ startCount[c] = 1

\* C9: of two concurrent unregister calls for the same (A, e) on a store with
\* exactly one (A, e) row, when both have ended one has succeeded and the
\* other has failed with NotSignedUpError.
ConcurrentUnenrollOneSucceeds ==
    \A c, d \in Callers :
       Overlapping(c, d) =>
          {result[c], result[d]} = {"ok", "NotSignedUpError"}

ConcurrentUnenrollOneSucceedsWitness ==
    \E c, d \in Callers :
       /\ Overlapping(c, d)
       /\ result[c] = "ok"
       /\ result[d] = "NotSignedUpError"

\* C10: for every activity and every email, the empty string included, the
\* listed participants contain the email exactly when an enrollment row for
\* it exists, each once and in ascending order.
ListingMatchesEnrollments ==
    \A c \in Callers :
       (pc[c] = "done" /\ op[c] = "list")
          => \A a \in activities :
                LET ps == listing[c][a.name].participants
                IN  /\ \A e \in AllEmails :
                          HasParticipant(ps, e)
                             <=> CopiesIn(<<a.id, e>>, enrollments) >= 1
                    /\ \A i, j \in 1..Len(ps) : i < j => LexLess(ps[i], ps[j])

====
